---- MODULE Spec2Model ----
(***************************************************************************)
(* Model of spotify_data_manipulation: StorageService (spotify_storage.py)  *)
(* and SpotifyClient with its three handlers (spotify_client.py).           *)
(*                                                                         *)
(* Python values are represented as follows.                               *)
(*   str            a TLA+ string                                          *)
(*   None as a key  the string NoneKey (no Python str of the model is it)   *)
(*   None as item   the record PyNone                                      *)
(*   dict item      a record whose fields are the keys of the dict; a dict  *)
(*                  without 'id' simply has no id field                    *)
(*   dict _storage  a sequence of [key, value] entries in insertion order   *)
(*                  (Python dicts keep insertion order)                    *)
(***************************************************************************)
EXTENDS Integers, Sequences, FiniteSets, TLC

VARIABLES
    storage,        \* StorageService._storage
    call,           \* the last StorageService call: [name, item, key]
    result,         \* what that call returned or raised
    lastWritten,    \* history: key -> value last written by a successful call, or Missing
    insertOrder,    \* history: keys that have an entry, in the order they got it
    deletedSince,   \* history: keys deleted and not added again since
    pc,             \* the caller: "idle", or "wait" while blocked in session.send
    clients,        \* the SpotifyClient objects constructed so far, with
                    \* access_token (and, as history, the token their
                    \* construction got)
    net,            \* the HTTP request session.send is blocked on, or PyNone
    sent,           \* history: every HTTP request put on the wire, in order,
                    \* with the call and the object it was sent for
    answer,         \* history: the answer session.send came back with in the last
                    \* call, PyNone while a call is running
    ccall,          \* the SpotifyClient / handler call made last: [name, oid, arg]
    cresult         \* what that call returned or raised, Running until it does

storageVars == <<storage, call, result, lastWritten, insertOrder, deletedSince>>
clientVars == <<pc, clients, net, sent, answer, ccall, cresult>>
vars == <<storage, call, result, lastWritten, insertOrder, deletedSince,
          pc, clients, net, sent, answer, ccall, cresult>>

----------------------------------------------------------------------------
(* Python values *)

NoneKey == "None"
PyNone == [type |-> "NoneType"]
Missing == [type |-> "missing"]

Ids == {"1", "2"}
AllKeys == Ids \cup {NoneKey}

\* the items callers pass in: dicts with an id, a dict whose id is None,
\* a dict without id, and None itself
Dicts ==
    {[id |-> i, name |-> n] : i \in Ids, n \in {"a", "b"}}
        \cup {[id |-> NoneKey, name |-> "a"], [name |-> "a"]}
Items == Dicts \cup {PyNone}

Return(v) == [raised |-> FALSE, exc |-> "", value |-> v]
Raise(e) == [raised |-> TRUE, exc |-> e, value |-> PyNone]

\* dict.get(field): the value, or None when the field is absent
Get(item, field) ==
    IF field \in DOMAIN item THEN item[field] ELSE NoneKey

----------------------------------------------------------------------------
(* the built-in dict behind _storage *)

DictKeys(d) == {d[i].key : i \in 1..Len(d)}

DictHas(d, k) == k \in DictKeys(d)

DictIndex(d, k) == CHOOSE i \in 1..Len(d) : d[i].key = k

\* d.get(k)
DictGet(d, k) ==
    IF DictHas(d, k) THEN d[DictIndex(d, k)].value ELSE PyNone

\* d[k] = v : an existing key keeps its position, a new key goes last
DictSet(d, k, v) ==
    IF DictHas(d, k)
    THEN [d EXCEPT ![DictIndex(d, k)] = [key |-> k, value |-> v]]
    ELSE Append(d, [key |-> k, value |-> v])

\* d.pop(k) for a key that is present
DictPop(d, k) == SelectSeq(d, LAMBDA e : e.key # k)

\* list(d.values())
DictValues(d) == [i \in 1..Len(d) |-> d[i].value]

----------------------------------------------------------------------------
(* StorageService: each method as a function of the storage, giving the    *)
(* new storage and the outcome                                             *)

\* add_item as it would be if it dropped the old entry before storing the new one
add_item_reinsert(st, spotify_item) ==
    IF spotify_item = PyNone
    THEN [st |-> st, res |-> Raise("AttributeError")]
    ELSE [st |-> Append(DictPop(st, Get(spotify_item, "id")),
                        [key |-> Get(spotify_item, "id"), value |-> spotify_item]),
          res |-> Return(spotify_item)]

add_item(st, spotify_item) ==
    IF spotify_item = PyNone
    THEN [st |-> st, res |-> Raise("AttributeError")]
    ELSE [st |-> DictSet(st, Get(spotify_item, "id"), spotify_item),
          res |-> Return(spotify_item)]

get_all_items(st) ==
    [st |-> st, res |-> Return(DictValues(st))]

\* get_item_by_id as it would be if it tested the stored value, not the key
get_item_by_id_sentinel(st, key) ==
    IF DictGet(st, key) # PyNone
    THEN [st |-> st, res |-> Return(DictGet(st, key))]
    ELSE [st |-> st, res |-> Raise("KeyError")]

get_item_by_id(st, key) ==
    IF DictHas(st, key)
    THEN [st |-> st, res |-> Return(DictGet(st, key))]
    ELSE [st |-> st, res |-> Raise("KeyError")]

\* update_item as it would be if it stored without looking for the key
update_item_upsert(st, spotify_item, key) ==
    [st |-> DictSet(st, key, spotify_item), res |-> Return(spotify_item)]

update_item(st, spotify_item, key) ==
    LET old_spotify_item == DictGet(st, key) IN
    IF old_spotify_item # PyNone
    THEN [st |-> DictSet(st, key, spotify_item), res |-> Return(spotify_item)]
    ELSE [st |-> st, res |-> Raise("KeyError")]

\* delete_by_id as it would be if it popped with a default and never raised
delete_by_id_silent(st, key) ==
    [st |-> DictPop(st, key), res |-> Return(PyNone)]

delete_by_id(st, key) ==
    IF DictHas(st, key)
    THEN [st |-> DictPop(st, key), res |-> Return(PyNone)]
    ELSE [st |-> st, res |-> Raise("KeyError")]

----------------------------------------------------------------------------
(* StorageService calls *)

AddItem(item) ==
    LET r == add_item(storage, item)
        k == Get(item, "id")
    IN  /\ storage' = r.st
        /\ result' = r.res
        /\ call' = [name |-> "add_item", item |-> item, key |-> NoneKey]
        /\ IF r.res.raised
           THEN UNCHANGED <<lastWritten, insertOrder, deletedSince>>
           ELSE /\ lastWritten' = [lastWritten EXCEPT ![k] = item]
                /\ insertOrder' = IF lastWritten[k] = Missing
                                  THEN Append(insertOrder, k)
                                  ELSE insertOrder
                /\ deletedSince' = deletedSince \ {k}
        /\ UNCHANGED clientVars

GetAllItems ==
    LET r == get_all_items(storage)
    IN  /\ storage' = r.st
        /\ result' = r.res
        /\ call' = [name |-> "get_all_items", item |-> PyNone, key |-> NoneKey]
        /\ UNCHANGED <<lastWritten, insertOrder, deletedSince>>
        /\ UNCHANGED clientVars

GetItemById(key) ==
    LET r == get_item_by_id(storage, key)
    IN  /\ storage' = r.st
        /\ result' = r.res
        /\ call' = [name |-> "get_item_by_id", item |-> PyNone, key |-> key]
        /\ UNCHANGED <<lastWritten, insertOrder, deletedSince>>
        /\ UNCHANGED clientVars

UpdateItem(item, key) ==
    LET r == update_item(storage, item, key)
    IN  /\ storage' = r.st
        /\ result' = r.res
        /\ call' = [name |-> "update_item", item |-> item, key |-> key]
        /\ lastWritten' = IF r.res.raised
                          THEN lastWritten
                          ELSE [lastWritten EXCEPT ![key] = item]
        /\ UNCHANGED <<insertOrder, deletedSince>>
        /\ UNCHANGED clientVars

DeleteById(key) ==
    LET r == delete_by_id(storage, key)
    IN  /\ storage' = r.st
        /\ result' = r.res
        /\ call' = [name |-> "delete_by_id", item |-> PyNone, key |-> key]
        /\ IF r.res.raised
           THEN UNCHANGED <<lastWritten, insertOrder, deletedSince>>
           ELSE /\ lastWritten' = [lastWritten EXCEPT ![key] = Missing]
                /\ insertOrder' = SelectSeq(insertOrder, LAMBDA j : j # key)
                /\ deletedSince' = deletedSince \cup {key}
        /\ UNCHANGED clientVars

----------------------------------------------------------------------------

Init ==
    /\ storage = <<>>
    /\ call = [name |-> "__init__", item |-> PyNone, key |-> NoneKey]
    /\ result = Return(PyNone)
    /\ lastWritten = [k \in AllKeys |-> Missing]
    /\ insertOrder = <<>>
    /\ deletedSince = {}
    /\ pc = "idle"
    /\ clients = <<>>
    /\ net = PyNone
    /\ sent = <<>>
    /\ answer = PyNone
    /\ ccall = [name |-> "", oid |-> 0, arg |-> NoneKey]
    /\ cresult = Return(PyNone)

StorageNext ==
    \/ \E item \in Items : AddItem(item)
    \/ GetAllItems
    \/ \E key \in AllKeys : GetItemById(key)
    \/ \E item \in Items, key \in AllKeys : UpdateItem(item, key)
    \/ \E key \in AllKeys : DeleteById(key)

StorageSpec == Init /\ [][StorageNext]_vars

----------------------------------------------------------------------------
(* SpotifyClient *)

MaxRequests == 3

spotify_url == "https://api.spotify.com/v1"
token_url == "https://accounts.spotify.com/api/token"

\* urlparse(url).hostname of the two urls the code names
api_host == "api.spotify.com"
token_host == "accounts.spotify.com"

\* credentials are strings given as sequences of code points: one with a
\* character outside ASCII that takes two bytes, one with a character that
\* takes three
ClientIds == {<<97, 233>>}
ClientSecrets == {<<115, 8364>>}
ResourceIds == {"abc", "zzz"}
Endpoints == {"search"}
Tokens == {"T", "U"}

\* urlparse(url).port of a url that names no port
NoPort == 0

\* where a redirect can point: the host of either endpoint or another host,
\* and the api host with another scheme, another port or the default port
\* spelled out
Locations ==
    {[url |-> "https://accounts.spotify.com/api/token2",
      scheme |-> "https", host |-> token_host, port |-> NoPort],
     [url |-> "https://api.spotify.com/v1/tracks/other",
      scheme |-> "https", host |-> api_host, port |-> NoPort],
     [url |-> "https://other.example.com/x",
      scheme |-> "https", host |-> "other.example.com", port |-> NoPort],
     [url |-> "http://api.spotify.com/v1/tracks/other",
      scheme |-> "http", host |-> api_host, port |-> NoPort],
     [url |-> "https://api.spotify.com:8443/v1/tracks/other",
      scheme |-> "https", host |-> api_host, port |-> 8443],
     [url |-> "https://api.spotify.com:443/v1/tracks/other",
      scheme |-> "https", host |-> api_host, port |-> 443]}
NoLocation == [url |-> NoneKey, scheme |-> NoneKey, host |-> NoneKey, port |-> NoPort]

\* what get_netrc_auth finds for the host of a redirect: nothing, or a login
NetrcAuth == {NoneKey, "Basic bmV0OnJj"}

\* what the remote end can do with a request: an HTTP response with a status,
\* a body that is JSON (a dict or null) or not, and perhaps a Location header,
\* or a refused connection
Statuses == {200, 201, 300, 401, 404, 500}
Bodies ==
    {[json |-> TRUE, doc |-> [access_token |-> t]] : t \in Tokens}
        \cup {[json |-> TRUE, doc |-> [id |-> "abc", name |-> "X"]],
              [json |-> TRUE, doc |-> PyNone],
              [json |-> FALSE, doc |-> PyNone]}
Responses ==
    {[kind |-> "response", status_code |-> s, body |-> b, location |-> NoLocation] :
        s \in Statuses, b \in Bodies}
        \cup {[kind |-> "response", status_code |-> s,
               body |-> [json |-> FALSE, doc |-> PyNone], location |-> l] :
                 s \in {301, 302, 307}, l \in Locations}
        \cup {[kind |-> "response", status_code |-> 302,
               body |-> [json |-> TRUE, doc |-> [id |-> "abc", name |-> "X"]],
               location |-> NoLocation]}
        \cup {[kind |-> "ConnectionError"]}

\* the requests callers hand to send_request themselves (method names are
\* written in lower case throughout, as the code passes them)
DirectRequests ==
    {[method |-> "get", url |-> spotify_url \o "/tracks/abc",
      scheme |-> "https", host |-> api_host, port |-> NoPort,
      headers |-> <<>>, data |-> PyNone],
     [method |-> "head", url |-> "http://api.spotify.com/v1/tracks/abc",
      scheme |-> "http", host |-> api_host, port |-> NoPort,
      headers |-> [Authorization |-> "Bearer T"], data |-> PyNone]}

RaiseHTTPError(status) ==
    [raised |-> TRUE, exc |-> "HTTPError", value |-> PyNone, status_code |-> status]

\* base64.b64encode over a sequence of bytes, giving the encoded text
B64Alphabet ==
    <<"A", "B", "C", "D", "E", "F", "G", "H", "I", "J", "K", "L", "M",
      "N", "O", "P", "Q", "R", "S", "T", "U", "V", "W", "X", "Y", "Z",
      "a", "b", "c", "d", "e", "f", "g", "h", "i", "j", "k", "l", "m",
      "n", "o", "p", "q", "r", "s", "t", "u", "v", "w", "x", "y", "z",
      "0", "1", "2", "3", "4", "5", "6", "7", "8", "9", "+", "/">>

B64Char(n) == B64Alphabet[n + 1]

RECURSIVE b64encode(_)
b64encode(bytes) ==
    IF Len(bytes) = 0 THEN ""
    ELSE IF Len(bytes) = 1 THEN
        B64Char(bytes[1] \div 4) \o B64Char((bytes[1] % 4) * 16) \o "=="
    ELSE IF Len(bytes) = 2 THEN
        B64Char(bytes[1] \div 4)
            \o B64Char((bytes[1] % 4) * 16 + bytes[2] \div 16)
            \o B64Char((bytes[2] % 16) * 4) \o "="
    ELSE
        B64Char(bytes[1] \div 4)
            \o B64Char((bytes[1] % 4) * 16 + bytes[2] \div 16)
            \o B64Char((bytes[2] % 16) * 4 + bytes[3] \div 64)
            \o B64Char(bytes[3] % 64)
            \o b64encode(SubSeq(bytes, 4, Len(bytes)))

\* str.encode(): the UTF-8 bytes of a string of code points (none of them a
\* surrogate)
RECURSIVE utf8_encode(_)
utf8_encode(text) ==
    IF Len(text) = 0 THEN <<>>
    ELSE LET c == Head(text)
             low(n) == 128 + (n % 64)
         IN (IF c < 128 THEN <<c>>
             ELSE IF c < 2048 THEN <<192 + (c \div 64), low(c)>>
             ELSE IF c < 65536 THEN
                <<224 + (c \div 4096), low(c \div 64), low(c)>>
             ELSE
                <<240 + (c \div 262144), low(c \div 4096), low(c \div 64), low(c)>>)
                \o utf8_encode(Tail(text))

\* the request retrieve_access_token hands to send_request
token_request(client_id, client_secret) ==
    LET encoded == b64encode(utf8_encode(client_id \o <<58>> \o client_secret)) IN
    [method |-> "post",
     url |-> token_url,
     scheme |-> "https",
     host |-> token_host,
     port |-> NoPort,
     headers |-> [Authorization |-> "Basic " \o encoded],
     data |-> [grant_type |-> "client_credentials"]]

\* the request get_item hands to send_request
get_item_request(token, endpoint) ==
    [method |-> "get",
     url |-> spotify_url \o "/" \o endpoint,
     scheme |-> "https",
     host |-> api_host,
     port |-> NoPort,
     headers |-> [Authorization |-> "Bearer " \o token],
     data |-> PyNone]

\* session.send follows a redirect (allow_redirects defaults to True) when the
\* answer has a redirect status and a Location header
is_redirect(resp) ==
    /\ resp.kind = "response"
    /\ resp.status_code \in {301, 302, 303, 307, 308}
    /\ resp.location # NoLocation

\* the method of the request that follows a redirect: 302 and 303 make every
\* method but HEAD a GET, 301 makes a POST a GET
rebuild_method(status, method) ==
    IF status = 303 /\ method # "head" THEN "get"
    ELSE IF status = 302 /\ method # "head" THEN "get"
    ELSE IF status = 301 /\ method = "post" THEN "get"
    ELSE method

\* the port a scheme stands for
default_port(scheme) ==
    IF scheme = "http" THEN 80 ELSE IF scheme = "https" THEN 443 ELSE NoPort

\* whether the Authorization header is dropped on a redirect from old to new:
\* always when the host changes, never on an http to https upgrade on the
\* standard ports or when scheme and (default) port stay; otherwise when the
\* scheme or the port changes
should_strip_auth(old, new) ==
    IF old.host # new.host THEN TRUE
    ELSE IF /\ old.scheme = "http" /\ old.port \in {80, NoPort}
            /\ new.scheme = "https" /\ new.port \in {443, NoPort}
         THEN FALSE
    ELSE IF /\ old.scheme = new.scheme
            /\ old.port \in {default_port(old.scheme), NoPort}
            /\ new.port \in {default_port(old.scheme), NoPort}
         THEN FALSE
    ELSE old.port # new.port \/ old.scheme # new.scheme

\* the headers of the request that follows a redirect: Authorization is
\* dropped when should_strip_auth says so, then set to the netrc login for the
\* new host when there is one
rebuild_auth(request, location, netrc) ==
    LET kept == IF "Authorization" \in DOMAIN request.headers
                   /\ should_strip_auth(request, location)
                THEN <<>>
                ELSE request.headers
    IN IF netrc # NoneKey THEN [Authorization |-> netrc] ELSE kept

\* the request session.send puts on the wire after the redirect resp
redirect_request(request, resp, netrc) ==
    [method |-> rebuild_method(resp.status_code, request.method),
     url |-> resp.location.url,
     scheme |-> resp.location.scheme,
     host |-> resp.location.host,
     port |-> resp.location.port,
     headers |-> rebuild_auth(request, resp.location, netrc),
     data |-> IF resp.status_code \in {307, 308} THEN request.data ELSE PyNone]

\* send_request(method, ...) from the point where session.send comes back
\* with its last answer resp (or raises): raise_for_status raises for 4xx and
\* 5xx, then response.json(), which has nothing to parse when the request was
\* a HEAD (the answer to a HEAD has no body) or the body is not JSON
send_request(method, resp) ==
    IF resp.kind = "ConnectionError" THEN Raise("ConnectionError")
    ELSE IF resp.status_code >= 400 /\ resp.status_code < 600
         THEN RaiseHTTPError(resp.status_code)
    ELSE IF method = "head" THEN Raise("JSONDecodeError")
    ELSE IF ~resp.body.json THEN Raise("JSONDecodeError")
    ELSE Return(resp.body.doc)

\* retrieve_access_token, given the last answer to its request
retrieve_access_token(resp) ==
    LET response == send_request("post", resp) IN
    IF response.raised THEN response
    ELSE IF response.value = PyNone THEN Raise("TypeError")
    ELSE IF "access_token" \notin DOMAIN response.value THEN Raise("KeyError")
    ELSE Return(response.value.access_token)

\* get_item, given the last answer to its request
get_item(resp) == send_request("get", resp)

get_track(track_id) == "tracks/" \o track_id
get_artist(artist_id) == "artists/" \o artist_id
get_album(album_id) == "albums/" \o album_id

\* the identity of the next object a constructor call makes
NextOid ==
    1 + Cardinality({i \in 1..Len(sent) :
                        sent[i].by = "__init__" /\ ~sent[i].followup})

\* no outcome yet: the call is still running
Running == [raised |-> FALSE, exc |-> "running", value |-> PyNone]

\* a call reaches session.send: the request goes out and the caller blocks
Send(request, name, oid, arg) ==
    /\ pc = "idle"
    /\ Len(sent) < MaxRequests
    /\ pc' = "wait"
    /\ net' = [req |-> request, server |-> "pending"]
    /\ sent' = Append(sent, [req |-> request, by |-> name, oid |-> oid,
                             followup |-> FALSE])
    /\ ccall' = [name |-> name, oid |-> oid, arg |-> arg]
    /\ answer' = PyNone
    /\ cresult' = Running

\* session.send comes back with resp: the caller runs on
Receive(resp) ==
    /\ pc = "wait"
    /\ net.server = "pending"
    /\ ~is_redirect(resp)
    /\ pc' = "idle"
    /\ net' = PyNone
    /\ answer' = resp

\* SpotifyClient(client_id, client_secret) up to the token request
Construct(client_id, client_secret) ==
    /\ Send(token_request(client_id, client_secret), "__init__", NextOid, NoneKey)
    /\ UNCHANGED clients
    /\ UNCHANGED storageVars

\* the rest of __init__ once the token request is answered: the object exists
\* only when retrieve_access_token returned
TokenAnswer(resp) ==
    /\ ccall.name = "__init__"
    /\ Receive(resp)
    /\ LET r == retrieve_access_token(resp) IN
        IF r.raised
        THEN /\ cresult' = r
             /\ UNCHANGED clients
        ELSE /\ cresult' = Return(PyNone)
             /\ clients' = Append(clients, [oid |-> ccall.oid,
                                            access_token |-> r.value,
                                            issued |-> r.value])
    /\ UNCHANGED <<sent, ccall>>
    /\ UNCHANGED storageVars

\* client.retrieve_access_token(client_id, client_secret) on a constructed
\* client, up to the token request
RetrieveAccessToken(client_id, client_secret) ==
    \E c \in 1..Len(clients) :
    /\ Send(token_request(client_id, client_secret), "retrieve_access_token",
            clients[c].oid, NoneKey)
    /\ UNCHANGED clients
    /\ UNCHANGED storageVars

\* the rest of that call: the token is returned, not stored
RetrieveAnswer(resp) ==
    /\ ccall.name = "retrieve_access_token"
    /\ Receive(resp)
    /\ cresult' = retrieve_access_token(resp)
    /\ UNCHANGED <<clients, sent, ccall>>
    /\ UNCHANGED storageVars

\* client.tracks.get_track(track_id) up to the resource request
GetTrack(track_id) ==
    \E c \in 1..Len(clients) :
    /\ Send(get_item_request(clients[c].access_token, get_track(track_id)),
            "get_track", clients[c].oid, track_id)
    /\ UNCHANGED clients
    /\ UNCHANGED storageVars

\* client.artists.get_artist(artist_id) up to the resource request
GetArtist(artist_id) ==
    \E c \in 1..Len(clients) :
    /\ Send(get_item_request(clients[c].access_token, get_artist(artist_id)),
            "get_artist", clients[c].oid, artist_id)
    /\ UNCHANGED clients
    /\ UNCHANGED storageVars

\* client.albums.get_album(album_id) up to the resource request
GetAlbum(album_id) ==
    \E c \in 1..Len(clients) :
    /\ Send(get_item_request(clients[c].access_token, get_album(album_id)),
            "get_album", clients[c].oid, album_id)
    /\ UNCHANGED clients
    /\ UNCHANGED storageVars

\* client.get_item(endpoint) called by the caller itself
GetItem(endpoint) ==
    \E c \in 1..Len(clients) :
    /\ Send(get_item_request(clients[c].access_token, endpoint),
            "get_item", clients[c].oid, endpoint)
    /\ UNCHANGED clients
    /\ UNCHANGED storageVars

\* the rest of get_item, for the handlers too, once the request is answered
ItemAnswer(resp) ==
    /\ ccall.name \in {"get_track", "get_artist", "get_album", "get_item"}
    /\ Receive(resp)
    /\ cresult' = get_item(resp)
    /\ UNCHANGED <<clients, sent, ccall>>
    /\ UNCHANGED storageVars

\* SpotifyClient.send_request(method, url, headers, request_data) called by the
\* caller itself: a classmethod, no object needed
SendRequest(request) ==
    /\ Send(request, "send_request", 0, NoneKey)
    /\ UNCHANGED clients
    /\ UNCHANGED storageVars

\* the rest of that call; the request resp answers is the one on the wire,
\* a HEAD exactly when the caller's method is (a redirect keeps a HEAD a HEAD
\* and makes no other method one)
RequestAnswer(resp) ==
    /\ ccall.name = "send_request"
    /\ Receive(resp)
    /\ cresult' = send_request(net.req.method, resp)
    /\ UNCHANGED <<clients, sent, ccall>>
    /\ UNCHANGED storageVars

\* inside session.send: the answer is a redirect, the next request goes out
\* and the caller stays blocked (the bound on sent cuts a chain of redirects
\* long before the transport's own limit)
FollowRedirect(resp, netrc) ==
    /\ pc = "wait"
    /\ net.server = "pending"
    /\ is_redirect(resp)
    /\ Len(sent) < MaxRequests
    /\ LET request == redirect_request(net.req, resp, netrc) IN
        /\ net' = [req |-> request, server |-> "pending"]
        /\ sent' = Append(sent, [req |-> request, by |-> ccall.name,
                                 oid |-> ccall.oid, followup |-> TRUE])
    /\ UNCHANGED <<pc, clients, answer, ccall, cresult>>
    /\ UNCHANGED storageVars

\* the remote end keeps the connection open and never answers
NoAnswer ==
    /\ net # PyNone
    /\ net.server = "pending"
    /\ net' = [net EXCEPT !.server = "silent"]
    /\ UNCHANGED <<pc, clients, sent, answer, ccall, cresult>>
    /\ UNCHANGED storageVars

ClientNext ==
    \/ \E client_id \in ClientIds, client_secret \in ClientSecrets :
          Construct(client_id, client_secret)
    \/ \E resp \in Responses : TokenAnswer(resp)
    \/ \E client_id \in ClientIds, client_secret \in ClientSecrets :
          RetrieveAccessToken(client_id, client_secret)
    \/ \E resp \in Responses : RetrieveAnswer(resp)
    \/ \E id \in ResourceIds : GetTrack(id)
    \/ \E id \in ResourceIds : GetArtist(id)
    \/ \E id \in ResourceIds : GetAlbum(id)
    \/ \E endpoint \in Endpoints : GetItem(endpoint)
    \/ \E resp \in Responses : ItemAnswer(resp)
    \/ \E request \in DirectRequests : SendRequest(request)
    \/ \E resp \in Responses : RequestAnswer(resp)
    \/ \E resp \in Responses, netrc \in NetrcAuth : FollowRedirect(resp, netrc)
    \/ NoAnswer

ClientSpec == Init /\ [][ClientNext]_vars

\* every step that is enabled is eventually taken: the caller runs, and the
\* remote end either answers or has decided not to
ClientLiveSpec == ClientSpec /\ WF_vars(ClientNext)

----------------------------------------------------------------------------
(* Properties of StorageService *)

\* what the history says a lookup of k must give
Expected(k) ==
    IF lastWritten[k] = Missing THEN Raise("KeyError") ELSE Return(lastWritten[k])

\* C1: in every reachable state get_item_by_id(k) returns the value most
\* recently written under k by a successful add_item or update_item when k
\* has an entry, and raises KeyError exactly when k was never added or was
\* deleted since; the call that was just made answered that way too.
C1_GetReturnsLastWritten ==
    /\ \A k \in AllKeys : get_item_by_id(storage, k).res = Expected(k)
    /\ call.name = "get_item_by_id" => result = Expected(call.key)

C1_Witness ==
    /\ call.name = "get_item_by_id"
    /\ ~result.raised
    /\ result.value = [id |-> "1", name |-> "b"]
    /\ \E k \in AllKeys : lastWritten[k] = Missing /\ k \in deletedSince

\* C2: add_item with an item whose id is absent or None raises
\* InvalidItemError, and the store never holds an entry under the None key.
C2_NoNoneKey ==
    /\ ~DictHas(storage, NoneKey)
    /\ (call.name = "add_item" /\ call.item # PyNone /\ Get(call.item, "id") = NoneKey)
          => result = Raise("InvalidItemError")

\* C3: update_item(item, key) succeeds if and only if key has an entry,
\* whatever value is stored there; on success it returns item, the entry at
\* key becomes item and every other entry (the one under item.id too) is as
\* before; when key has no entry it raises KeyError and changes nothing.
C3_UpdateStep ==
    call'.name = "update_item" =>
        /\ ~result'.raised <=> DictHas(storage, call'.key)
        /\ ~result'.raised =>
              /\ result' = Return(call'.item)
              /\ get_item_by_id(storage', call'.key).res = Return(call'.item)
              /\ \A j \in AllKeys \ {call'.key} :
                    get_item_by_id(storage', j).res = get_item_by_id(storage, j).res
        /\ result'.raised => result' = Raise("KeyError") /\ storage' = storage

C3_UpdateIffPresent == [][C3_UpdateStep]_vars

\* C4: delete_by_id(key) removes exactly the entry at key when it is present
\* and leaves every other entry as it was; when key has no entry it raises
\* KeyError, so a second delete_by_id(key) with no add_item for that key in
\* between raises KeyError.
C4_DeleteStep ==
    call'.name = "delete_by_id" =>
        LET k == call'.key IN
        /\ DictHas(storage, k) =>
              /\ result' = Return(PyNone)
              /\ DictKeys(storage') = DictKeys(storage) \ {k}
              /\ Len(get_all_items(storage').res.value) =
                    Len(get_all_items(storage).res.value) - 1
              /\ \A j \in AllKeys \ {k} :
                    get_item_by_id(storage', j).res = get_item_by_id(storage, j).res
        /\ ~DictHas(storage, k) =>
              /\ result' = Raise("KeyError")
              /\ storage' = storage
        /\ k \in deletedSince => result' = Raise("KeyError")

C4_DeleteRemovesExactly == [][C4_DeleteStep]_vars

C4_Witness ==
    /\ call.name = "delete_by_id"
    /\ result = Raise("KeyError")
    /\ call.key \in deletedSince
    /\ Len(storage) = 2

\* C5: get_all_items returns exactly one value per key in the store, its
\* current value, so its length is the number of distinct keys present, and
\* the values are in the order in which their keys were inserted.
C5_AllItemsInInsertionOrder ==
    LET all == get_all_items(storage).res.value IN
    /\ ~get_all_items(storage).res.raised
    /\ Len(all) = Cardinality({k \in AllKeys : lastWritten[k] # Missing})
    /\ Len(all) = Cardinality(DictKeys(storage))
    /\ Len(all) = Len(insertOrder)
    /\ \A i \in 1..Len(all) : all[i] = lastWritten[insertOrder[i]]
    /\ call.name = "get_all_items" => result = Return(all)

C5_Witness ==
    /\ call.name = "get_all_items"
    /\ result.value = <<[id |-> "2", name |-> "a"], [id |-> "1", name |-> "b"]>>
    /\ insertOrder = <<"2", "1">>

\* C10: a StorageService call that raises, and every get_item_by_id and
\* get_all_items, leaves the whole mapping as it was; the set of keys changes
\* only through a successful add_item or a successful delete_by_id.
C10_FrameStep ==
    /\ (result'.raised \/ call'.name \in {"get_item_by_id", "get_all_items"})
          => storage' = storage
    /\ DictKeys(storage') # DictKeys(storage)
          => call'.name \in {"add_item", "delete_by_id"} /\ ~result'.raised

C10_Frame == [][C10_FrameStep]_vars

C10_Witness ==
    /\ call.name = "update_item"
    /\ result = Raise("KeyError")
    /\ Len(storage) = 2

----------------------------------------------------------------------------
(* Properties of SpotifyClient *)

Accessors == {"get_track", "get_artist", "get_album", "get_item"}

HasAccessToken(resp) ==
    /\ resp.kind = "response"
    /\ resp.body.json
    /\ resp.body.doc # PyNone
    /\ "access_token" \in DOMAIN resp.body.doc

Carries(request, authorization) ==
    /\ "Authorization" \in DOMAIN request.headers
    /\ request.headers.Authorization = authorization

\* the requests on the wire that belong to calls of kind names on object oid
SentFor(oid, names) ==
    {i \in 1..Len(sent) : sent[i].oid = oid /\ sent[i].by \in names}

\* C6: construction fails whenever the token endpoint does not answer with
\* status 200 and a body containing access_token; then no client exists and
\* no resource GET is ever sent for it.
C6_ConstructionNeeds200 ==
    /\ (pc = "idle" /\ ccall.name = "__init__") =>
          (~cresult.raised <=> (HasAccessToken(answer) /\ answer.status_code = 200))
    /\ \A i \in 1..Len(sent) :
          sent[i].by \in Accessors => \E c \in 1..Len(clients) : clients[c].oid = sent[i].oid

\* C7: for every status outside 2xx answered by the resource endpoint the
\* accessor raises an error carrying that status and returns no value; only
\* a 2xx status yields a returned value, which is the parsed body unchanged.
C7_Non2xxRaises ==
    (pc = "idle" /\ ccall.name \in Accessors /\ answer.kind = "response") =>
        /\ answer.status_code \notin 200..299 =>
              /\ cresult.raised
              /\ "status_code" \in DOMAIN cresult
              /\ cresult.status_code = answer.status_code
        /\ ~cresult.raised =>
              /\ answer.status_code \in 200..299
              /\ cresult.value = answer.body.doc

\* the token of a client is obtained once, by the first request of its
\* construction, before any request of its accessor calls, and access_token
\* is still that token
TokenObtainedOnce(c) ==
    LET oid == clients[c].oid
        first == {i \in SentFor(oid, {"__init__"}) : ~sent[i].followup}
    IN  /\ clients[c].access_token = clients[c].issued
        /\ Cardinality(first) = 1
        /\ sent[CHOOSE i \in first : TRUE].req.url = token_url
        /\ sent[CHOOSE i \in first : TRUE].req.method = "post"
        /\ \A i \in first, j \in SentFor(oid, Accessors) : i < j

\* C8: the access token is obtained exactly once, during
\* construction and before any resource request; after any accessor calls,
\* whatever they returned or raised, the client's token is still the value T
\* returned at construction and every GET sent for them carried
\* Authorization: Bearer T.
C8_EveryGetCarriesToken ==
    \A c \in 1..Len(clients) :
        /\ TokenObtainedOnce(c)
        /\ \A j \in SentFor(clients[c].oid, Accessors) :
              /\ sent[j].req.method = "get"
              /\ Carries(sent[j].req, "Bearer " \o clients[c].issued)

\* C9: every network call eventually returns control to the caller, with the
\* answer or with a failure once the timeout elapses; none blocks forever.
C9_CallsReturn == (net # PyNone) ~> (net = PyNone)

====
